---- MODULE Spec2Model ----
(***************************************************************************)
(* Model of the reconciliation engine of src/app.py (Budget & Actual       *)
(* Validator): parse_number, similar (difflib.SequenceMatcher.ratio), the  *)
(* column labels and get_cell, and the "Run Validation" handler (right_map *)
(* construction, left-side loop).                                          *)
(*                                                                         *)
(* Representation.                                                         *)
(*  - A Python str is the sequence of its Unicode code points.  Str turns  *)
(*    a tuple of one-character strings of printable ASCII into it.         *)
(*  - A cell is either NaN (pd.isna(cell) is true: an empty spreadsheet    *)
(*    cell) or a str (str(cell) of the cell).                              *)
(*  - Optional[float] is a record [isNone, nan, inf, neg, mant, exp]:      *)
(*    None, a NaN, an infinity, or the IEEE 754 binary64 value             *)
(*    (-1)^neg * mant * 2^exp with mant an odd natural number of any size  *)
(*    (zero: mant = 0, exp = 0).  Natural numbers of any size are          *)
(*    sequences of digits in base 2^15.                                    *)
(*  - A similarity ratio 2.0*M/L is the record [num |-> 2*M, den |-> L] of *)
(*    the float nearest to num/den; ratios are compared as fractions,      *)
(*    which orders them as their floats are ordered (two different         *)
(*    fractions of denominators below 2^26 round to different floats).     *)
(*  - A note is a TLA+ string.                                             *)
(*  - A dict is the sequence of its [key, val] items in iteration          *)
(*    (insertion) order.                                                   *)
(*  - The Unicode tables are those of Unicode 14.0 (Python 3.11).          *)
(***************************************************************************)
EXTENDS Integers, Sequences, FiniteSets

VARIABLES df, header_row, display_cols, mapping, start_row, end_row,
          tolerance, sim_thresh, pc, r, right_map, results, mismatches,
          args, ret

vars == <<df, header_row, display_cols, mapping, start_row, end_row,
          tolerance, sim_thresh, pc, r, right_map, results, mismatches,
          args, ret>>

(***************************************************************************)
(* Bounds of the model.                                                    *)
(***************************************************************************)
\* rows of the data grid df
MaxRows == 2
\* length of the enumerated cell strings given to parse_number
MaxCellLen == 4
\* length of the enumerated strings given to similar
MaxNameLen == 3

(***************************************************************************)
(* Python str: code points.                                                *)
(***************************************************************************)
\* the printable ASCII characters, from code point 32 on ("" stands where the
\* grave accent, which no string of the module can hold, has its place)
AsciiChars ==
  <<" ", "!", "\"", "#", "$", "%", "&", "'", "(", ")", "*", "+", ",", "-",
    ".", "/", "0", "1", "2", "3", "4", "5", "6", "7", "8", "9", ":", ";",
    "<", "=", ">", "?", "@", "A", "B", "C", "D", "E", "F", "G", "H", "I",
    "J", "K", "L", "M", "N", "O", "P", "Q", "R", "S", "T", "U", "V", "W",
    "X", "Y", "Z", "[", "\\", "]", "^", "_", "", "a", "b", "c", "d", "e",
    "f", "g", "h", "i", "j", "k", "l", "m", "n", "o", "p", "q", "r", "s",
    "t", "u", "v", "w", "x", "y", "z", "{", "|", "}", "~">>

\* ord(c) of a printable ASCII character
Ord(c) == 31 + CHOOSE i \in 1..Len(AsciiChars) : AsciiChars[i] = c

\* the str of the characters t[1], t[2], ...
Str(t) == [i \in 1..Len(t) |-> Ord(t[i])]

\* pd.isna(cell) is true
NaN == <<-1>>

\* the zero of each run of ten decimal digits (category Nd) of Unicode
DigitZeros ==
  {48, 1632, 1776, 1984, 2406, 2534, 2662, 2790, 2918, 3046, 3174, 3302,
   3430, 3558, 3664, 3792, 3872, 4160, 4240, 6112, 6160, 6470, 6608, 6784,
   6800, 6992, 7088, 7232, 7248, 42528, 43216, 43264, 43472, 43504, 43600,
   44016, 65296, 66720, 68912, 69734, 69872, 69942, 70096, 70384, 70736,
   70864, 71248, 71360, 71472, 71904, 72016, 72784, 73040, 73120, 92768,
   92864, 93008, 120782, 120792, 120802, 120812, 120822, 123200, 123632,
   125264, 130032}

\* the characters \d matches and float() reads as decimal digits
Digits == UNION {z..(z + 9) : z \in DigitZeros}

\* the value of the decimal digit c
DigitVal(c) == c - (CHOOSE z \in DigitZeros : z <= c /\ c <= z + 9)

\* characters str.strip() removes from both ends
Whitespace ==
  {9, 10, 11, 12, 13, 28, 29, 30, 31, 32, 133, 160, 5760, 8192, 8193, 8194,
   8195, 8196, 8197, 8198, 8199, 8200, 8201, 8202, 8232, 8233, 8239, 8287,
   12288}

\* s.strip()
Strip(s) ==
  LET keep == {i \in 1..Len(s) : s[i] \notin Whitespace}
  IN  IF keep = {} THEN <<>>
      ELSE LET lo == CHOOSE i \in keep : \A j \in keep : i <= j
               hi == CHOOSE i \in keep : \A j \in keep : j <= i
           IN  SubSeq(s, lo, hi)

\* whether c lies in one of the ranges <<first, last>> of table
InRanges(c, table) ==
  \E i \in 1..Len(table) : table[i][1] <= c /\ c <= table[i][2]

\* the code points with a one-character lowercase mapping other than
\* themselves: <<first, last, step, delta>> maps first, first + step, ...,
\* last to themselves plus delta
LowerRules ==
  <<<<65, 90, 1, 32>>, <<192, 214, 1, 32>>, <<216, 222, 1, 32>>,
    <<256, 302, 2, 1>>, <<306, 310, 2, 1>>, <<313, 327, 2, 1>>,
    <<330, 374, 2, 1>>, <<376, 376, 1, -121>>, <<377, 381, 2, 1>>,
    <<385, 385, 1, 210>>, <<386, 388, 2, 1>>, <<390, 390, 1, 206>>,
    <<391, 391, 1, 1>>, <<393, 394, 1, 205>>, <<395, 395, 1, 1>>,
    <<398, 398, 1, 79>>, <<399, 399, 1, 202>>, <<400, 400, 1, 203>>,
    <<401, 401, 1, 1>>, <<403, 403, 1, 205>>, <<404, 404, 1, 207>>,
    <<406, 406, 1, 211>>, <<407, 407, 1, 209>>, <<408, 408, 1, 1>>,
    <<412, 412, 1, 211>>, <<413, 413, 1, 213>>, <<415, 415, 1, 214>>,
    <<416, 420, 2, 1>>, <<422, 422, 1, 218>>, <<423, 423, 1, 1>>,
    <<425, 425, 1, 218>>, <<428, 428, 1, 1>>, <<430, 430, 1, 218>>,
    <<431, 431, 1, 1>>, <<433, 434, 1, 217>>, <<435, 437, 2, 1>>,
    <<439, 439, 1, 219>>, <<440, 440, 1, 1>>, <<444, 444, 1, 1>>,
    <<452, 452, 1, 2>>, <<453, 453, 1, 1>>, <<455, 455, 1, 2>>,
    <<456, 456, 1, 1>>, <<458, 458, 1, 2>>, <<459, 475, 2, 1>>,
    <<478, 494, 2, 1>>, <<497, 497, 1, 2>>, <<498, 500, 2, 1>>,
    <<502, 502, 1, -97>>, <<503, 503, 1, -56>>, <<504, 542, 2, 1>>,
    <<544, 544, 1, -130>>, <<546, 562, 2, 1>>, <<570, 570, 1, 10795>>,
    <<571, 571, 1, 1>>, <<573, 573, 1, -163>>, <<574, 574, 1, 10792>>,
    <<577, 577, 1, 1>>, <<579, 579, 1, -195>>, <<580, 580, 1, 69>>,
    <<581, 581, 1, 71>>, <<582, 590, 2, 1>>, <<880, 882, 2, 1>>,
    <<886, 886, 1, 1>>, <<895, 895, 1, 116>>, <<902, 902, 1, 38>>,
    <<904, 906, 1, 37>>, <<908, 908, 1, 64>>, <<910, 911, 1, 63>>,
    <<913, 929, 1, 32>>, <<931, 939, 1, 32>>, <<975, 975, 1, 8>>,
    <<984, 1006, 2, 1>>, <<1012, 1012, 1, -60>>, <<1015, 1015, 1, 1>>,
    <<1017, 1017, 1, -7>>, <<1018, 1018, 1, 1>>, <<1021, 1023, 1, -130>>,
    <<1024, 1039, 1, 80>>, <<1040, 1071, 1, 32>>, <<1120, 1152, 2, 1>>,
    <<1162, 1214, 2, 1>>, <<1216, 1216, 1, 15>>, <<1217, 1229, 2, 1>>,
    <<1232, 1326, 2, 1>>, <<1329, 1366, 1, 48>>, <<4256, 4293, 1, 7264>>,
    <<4295, 4295, 1, 7264>>, <<4301, 4301, 1, 7264>>,
    <<5024, 5103, 1, 38864>>, <<5104, 5109, 1, 8>>,
    <<7312, 7354, 1, -3008>>, <<7357, 7359, 1, -3008>>,
    <<7680, 7828, 2, 1>>, <<7838, 7838, 1, -7615>>, <<7840, 7934, 2, 1>>,
    <<7944, 7951, 1, -8>>, <<7960, 7965, 1, -8>>, <<7976, 7983, 1, -8>>,
    <<7992, 7999, 1, -8>>, <<8008, 8013, 1, -8>>, <<8025, 8031, 2, -8>>,
    <<8040, 8047, 1, -8>>, <<8072, 8079, 1, -8>>, <<8088, 8095, 1, -8>>,
    <<8104, 8111, 1, -8>>, <<8120, 8121, 1, -8>>, <<8122, 8123, 1, -74>>,
    <<8124, 8124, 1, -9>>, <<8136, 8139, 1, -86>>, <<8140, 8140, 1, -9>>,
    <<8152, 8153, 1, -8>>, <<8154, 8155, 1, -100>>, <<8168, 8169, 1, -8>>,
    <<8170, 8171, 1, -112>>, <<8172, 8172, 1, -7>>,
    <<8184, 8185, 1, -128>>, <<8186, 8187, 1, -126>>,
    <<8188, 8188, 1, -9>>, <<8486, 8486, 1, -7517>>,
    <<8490, 8490, 1, -8383>>, <<8491, 8491, 1, -8262>>,
    <<8498, 8498, 1, 28>>, <<8544, 8559, 1, 16>>, <<8579, 8579, 1, 1>>,
    <<9398, 9423, 1, 26>>, <<11264, 11311, 1, 48>>, <<11360, 11360, 1, 1>>,
    <<11362, 11362, 1, -10743>>, <<11363, 11363, 1, -3814>>,
    <<11364, 11364, 1, -10727>>, <<11367, 11371, 2, 1>>,
    <<11373, 11373, 1, -10780>>, <<11374, 11374, 1, -10749>>,
    <<11375, 11375, 1, -10783>>, <<11376, 11376, 1, -10782>>,
    <<11378, 11378, 1, 1>>, <<11381, 11381, 1, 1>>,
    <<11390, 11391, 1, -10815>>, <<11392, 11490, 2, 1>>,
    <<11499, 11501, 2, 1>>, <<11506, 11506, 1, 1>>, <<42560, 42604, 2, 1>>,
    <<42624, 42650, 2, 1>>, <<42786, 42798, 2, 1>>, <<42802, 42862, 2, 1>>,
    <<42873, 42875, 2, 1>>, <<42877, 42877, 1, -35332>>,
    <<42878, 42886, 2, 1>>, <<42891, 42891, 1, 1>>,
    <<42893, 42893, 1, -42280>>, <<42896, 42898, 2, 1>>,
    <<42902, 42920, 2, 1>>, <<42922, 42922, 1, -42308>>,
    <<42923, 42923, 1, -42319>>, <<42924, 42924, 1, -42315>>,
    <<42925, 42925, 1, -42305>>, <<42926, 42926, 1, -42308>>,
    <<42928, 42928, 1, -42258>>, <<42929, 42929, 1, -42282>>,
    <<42930, 42930, 1, -42261>>, <<42931, 42931, 1, 928>>,
    <<42932, 42946, 2, 1>>, <<42948, 42948, 1, -48>>,
    <<42949, 42949, 1, -42307>>, <<42950, 42950, 1, -35384>>,
    <<42951, 42953, 2, 1>>, <<42960, 42960, 1, 1>>, <<42966, 42968, 2, 1>>,
    <<42997, 42997, 1, 1>>, <<65313, 65338, 1, 32>>,
    <<66560, 66599, 1, 40>>, <<66736, 66771, 1, 40>>,
    <<66928, 66938, 1, 39>>, <<66940, 66954, 1, 39>>,
    <<66956, 66962, 1, 39>>, <<66964, 66965, 1, 39>>,
    <<68736, 68786, 1, 64>>, <<71840, 71871, 1, 32>>,
    <<93760, 93791, 1, 32>>, <<125184, 125217, 1, 34>>>>

\* the code points with the property Cased
CasedRanges ==
  <<<<65, 90>>, <<97, 122>>, <<170, 170>>, <<181, 181>>, <<186, 186>>,
    <<192, 214>>, <<216, 246>>, <<248, 442>>, <<444, 447>>, <<452, 659>>,
    <<661, 696>>, <<704, 705>>, <<736, 740>>, <<837, 837>>, <<880, 883>>,
    <<886, 887>>, <<890, 893>>, <<895, 895>>, <<902, 902>>, <<904, 906>>,
    <<908, 908>>, <<910, 929>>, <<931, 1013>>, <<1015, 1153>>,
    <<1162, 1327>>, <<1329, 1366>>, <<1376, 1416>>, <<4256, 4293>>,
    <<4295, 4295>>, <<4301, 4301>>, <<4304, 4346>>, <<4349, 4351>>,
    <<5024, 5109>>, <<5112, 5117>>, <<7296, 7304>>, <<7312, 7354>>,
    <<7357, 7359>>, <<7424, 7615>>, <<7680, 7957>>, <<7960, 7965>>,
    <<7968, 8005>>, <<8008, 8013>>, <<8016, 8023>>, <<8025, 8025>>,
    <<8027, 8027>>, <<8029, 8029>>, <<8031, 8061>>, <<8064, 8116>>,
    <<8118, 8124>>, <<8126, 8126>>, <<8130, 8132>>, <<8134, 8140>>,
    <<8144, 8147>>, <<8150, 8155>>, <<8160, 8172>>, <<8178, 8180>>,
    <<8182, 8188>>, <<8305, 8305>>, <<8319, 8319>>, <<8336, 8348>>,
    <<8450, 8450>>, <<8455, 8455>>, <<8458, 8467>>, <<8469, 8469>>,
    <<8473, 8477>>, <<8484, 8484>>, <<8486, 8486>>, <<8488, 8488>>,
    <<8490, 8493>>, <<8495, 8500>>, <<8505, 8505>>, <<8508, 8511>>,
    <<8517, 8521>>, <<8526, 8526>>, <<8544, 8575>>, <<8579, 8580>>,
    <<9398, 9449>>, <<11264, 11492>>, <<11499, 11502>>, <<11506, 11507>>,
    <<11520, 11557>>, <<11559, 11559>>, <<11565, 11565>>, <<42560, 42605>>,
    <<42624, 42653>>, <<42786, 42887>>, <<42891, 42894>>, <<42896, 42954>>,
    <<42960, 42961>>, <<42963, 42963>>, <<42965, 42969>>, <<42997, 42998>>,
    <<43000, 43002>>, <<43824, 43866>>, <<43868, 43880>>, <<43888, 43967>>,
    <<64256, 64262>>, <<64275, 64279>>, <<65313, 65338>>, <<65345, 65370>>,
    <<66560, 66639>>, <<66736, 66771>>, <<66776, 66811>>, <<66928, 66938>>,
    <<66940, 66954>>, <<66956, 66962>>, <<66964, 66965>>, <<66967, 66977>>,
    <<66979, 66993>>, <<66995, 67001>>, <<67003, 67004>>, <<67456, 67456>>,
    <<67459, 67461>>, <<67463, 67504>>, <<67506, 67514>>, <<68736, 68786>>,
    <<68800, 68850>>, <<71840, 71903>>, <<93760, 93823>>,
    <<119808, 119892>>, <<119894, 119964>>, <<119966, 119967>>,
    <<119970, 119970>>, <<119973, 119974>>, <<119977, 119980>>,
    <<119982, 119993>>, <<119995, 119995>>, <<119997, 120003>>,
    <<120005, 120069>>, <<120071, 120074>>, <<120077, 120084>>,
    <<120086, 120092>>, <<120094, 120121>>, <<120123, 120126>>,
    <<120128, 120132>>, <<120134, 120134>>, <<120138, 120144>>,
    <<120146, 120485>>, <<120488, 120512>>, <<120514, 120538>>,
    <<120540, 120570>>, <<120572, 120596>>, <<120598, 120628>>,
    <<120630, 120654>>, <<120656, 120686>>, <<120688, 120712>>,
    <<120714, 120744>>, <<120746, 120770>>, <<120772, 120779>>,
    <<122624, 122633>>, <<122635, 122654>>, <<125184, 125251>>,
    <<127280, 127305>>, <<127312, 127337>>, <<127344, 127369>>>>

\* the code points with the property Case_Ignorable
CaseIgnorableRanges ==
  <<<<39, 39>>, <<46, 46>>, <<58, 58>>, <<94, 94>>, <<96, 96>>,
    <<168, 168>>, <<173, 173>>, <<175, 175>>, <<180, 180>>, <<183, 184>>,
    <<688, 879>>, <<884, 885>>, <<890, 890>>, <<900, 901>>, <<903, 903>>,
    <<1155, 1161>>, <<1369, 1369>>, <<1375, 1375>>, <<1425, 1469>>,
    <<1471, 1471>>, <<1473, 1474>>, <<1476, 1477>>, <<1479, 1479>>,
    <<1524, 1524>>, <<1536, 1541>>, <<1552, 1562>>, <<1564, 1564>>,
    <<1600, 1600>>, <<1611, 1631>>, <<1648, 1648>>, <<1750, 1757>>,
    <<1759, 1768>>, <<1770, 1773>>, <<1807, 1807>>, <<1809, 1809>>,
    <<1840, 1866>>, <<1958, 1968>>, <<2027, 2037>>, <<2042, 2042>>,
    <<2045, 2045>>, <<2070, 2093>>, <<2137, 2139>>, <<2184, 2184>>,
    <<2192, 2193>>, <<2200, 2207>>, <<2249, 2306>>, <<2362, 2362>>,
    <<2364, 2364>>, <<2369, 2376>>, <<2381, 2381>>, <<2385, 2391>>,
    <<2402, 2403>>, <<2417, 2417>>, <<2433, 2433>>, <<2492, 2492>>,
    <<2497, 2500>>, <<2509, 2509>>, <<2530, 2531>>, <<2558, 2558>>,
    <<2561, 2562>>, <<2620, 2620>>, <<2625, 2626>>, <<2631, 2632>>,
    <<2635, 2637>>, <<2641, 2641>>, <<2672, 2673>>, <<2677, 2677>>,
    <<2689, 2690>>, <<2748, 2748>>, <<2753, 2757>>, <<2759, 2760>>,
    <<2765, 2765>>, <<2786, 2787>>, <<2810, 2815>>, <<2817, 2817>>,
    <<2876, 2876>>, <<2879, 2879>>, <<2881, 2884>>, <<2893, 2893>>,
    <<2901, 2902>>, <<2914, 2915>>, <<2946, 2946>>, <<3008, 3008>>,
    <<3021, 3021>>, <<3072, 3072>>, <<3076, 3076>>, <<3132, 3132>>,
    <<3134, 3136>>, <<3142, 3144>>, <<3146, 3149>>, <<3157, 3158>>,
    <<3170, 3171>>, <<3201, 3201>>, <<3260, 3260>>, <<3263, 3263>>,
    <<3270, 3270>>, <<3276, 3277>>, <<3298, 3299>>, <<3328, 3329>>,
    <<3387, 3388>>, <<3393, 3396>>, <<3405, 3405>>, <<3426, 3427>>,
    <<3457, 3457>>, <<3530, 3530>>, <<3538, 3540>>, <<3542, 3542>>,
    <<3633, 3633>>, <<3636, 3642>>, <<3654, 3662>>, <<3761, 3761>>,
    <<3764, 3772>>, <<3782, 3782>>, <<3784, 3789>>, <<3864, 3865>>,
    <<3893, 3893>>, <<3895, 3895>>, <<3897, 3897>>, <<3953, 3966>>,
    <<3968, 3972>>, <<3974, 3975>>, <<3981, 3991>>, <<3993, 4028>>,
    <<4038, 4038>>, <<4141, 4144>>, <<4146, 4151>>, <<4153, 4154>>,
    <<4157, 4158>>, <<4184, 4185>>, <<4190, 4192>>, <<4209, 4212>>,
    <<4226, 4226>>, <<4229, 4230>>, <<4237, 4237>>, <<4253, 4253>>,
    <<4348, 4348>>, <<4957, 4959>>, <<5906, 5908>>, <<5938, 5939>>,
    <<5970, 5971>>, <<6002, 6003>>, <<6068, 6069>>, <<6071, 6077>>,
    <<6086, 6086>>, <<6089, 6099>>, <<6103, 6103>>, <<6109, 6109>>,
    <<6155, 6159>>, <<6211, 6211>>, <<6277, 6278>>, <<6313, 6313>>,
    <<6432, 6434>>, <<6439, 6440>>, <<6450, 6450>>, <<6457, 6459>>,
    <<6679, 6680>>, <<6683, 6683>>, <<6742, 6742>>, <<6744, 6750>>,
    <<6752, 6752>>, <<6754, 6754>>, <<6757, 6764>>, <<6771, 6780>>,
    <<6783, 6783>>, <<6823, 6823>>, <<6832, 6862>>, <<6912, 6915>>,
    <<6964, 6964>>, <<6966, 6970>>, <<6972, 6972>>, <<6978, 6978>>,
    <<7019, 7027>>, <<7040, 7041>>, <<7074, 7077>>, <<7080, 7081>>,
    <<7083, 7085>>, <<7142, 7142>>, <<7144, 7145>>, <<7149, 7149>>,
    <<7151, 7153>>, <<7212, 7219>>, <<7222, 7223>>, <<7288, 7293>>,
    <<7376, 7378>>, <<7380, 7392>>, <<7394, 7400>>, <<7405, 7405>>,
    <<7412, 7412>>, <<7416, 7417>>, <<7468, 7530>>, <<7544, 7544>>,
    <<7579, 7679>>, <<8125, 8125>>, <<8127, 8129>>, <<8141, 8143>>,
    <<8157, 8159>>, <<8173, 8175>>, <<8189, 8190>>, <<8203, 8207>>,
    <<8216, 8217>>, <<8228, 8228>>, <<8231, 8231>>, <<8234, 8238>>,
    <<8288, 8292>>, <<8294, 8303>>, <<8305, 8305>>, <<8319, 8319>>,
    <<8336, 8348>>, <<8400, 8432>>, <<11388, 11389>>, <<11503, 11505>>,
    <<11631, 11631>>, <<11647, 11647>>, <<11744, 11775>>, <<11823, 11823>>,
    <<12293, 12293>>, <<12330, 12333>>, <<12337, 12341>>, <<12347, 12347>>,
    <<12441, 12446>>, <<12540, 12542>>, <<40981, 40981>>, <<42232, 42237>>,
    <<42508, 42508>>, <<42607, 42610>>, <<42612, 42621>>, <<42623, 42623>>,
    <<42652, 42655>>, <<42736, 42737>>, <<42752, 42785>>, <<42864, 42864>>,
    <<42888, 42890>>, <<42994, 42996>>, <<43000, 43001>>, <<43010, 43010>>,
    <<43014, 43014>>, <<43019, 43019>>, <<43045, 43046>>, <<43052, 43052>>,
    <<43204, 43205>>, <<43232, 43249>>, <<43263, 43263>>, <<43302, 43309>>,
    <<43335, 43345>>, <<43392, 43394>>, <<43443, 43443>>, <<43446, 43449>>,
    <<43452, 43453>>, <<43471, 43471>>, <<43493, 43494>>, <<43561, 43566>>,
    <<43569, 43570>>, <<43573, 43574>>, <<43587, 43587>>, <<43596, 43596>>,
    <<43632, 43632>>, <<43644, 43644>>, <<43696, 43696>>, <<43698, 43700>>,
    <<43703, 43704>>, <<43710, 43711>>, <<43713, 43713>>, <<43741, 43741>>,
    <<43756, 43757>>, <<43763, 43764>>, <<43766, 43766>>, <<43867, 43871>>,
    <<43881, 43883>>, <<44005, 44005>>, <<44008, 44008>>, <<44013, 44013>>,
    <<64286, 64286>>, <<64434, 64450>>, <<65024, 65039>>, <<65043, 65043>>,
    <<65056, 65071>>, <<65106, 65106>>, <<65109, 65109>>, <<65279, 65279>>,
    <<65287, 65287>>, <<65294, 65294>>, <<65306, 65306>>, <<65342, 65342>>,
    <<65344, 65344>>, <<65392, 65392>>, <<65438, 65439>>, <<65507, 65507>>,
    <<65529, 65531>>, <<66045, 66045>>, <<66272, 66272>>, <<66422, 66426>>,
    <<67456, 67461>>, <<67463, 67504>>, <<67506, 67514>>, <<68097, 68099>>,
    <<68101, 68102>>, <<68108, 68111>>, <<68152, 68154>>, <<68159, 68159>>,
    <<68325, 68326>>, <<68900, 68903>>, <<69291, 69292>>, <<69446, 69456>>,
    <<69506, 69509>>, <<69633, 69633>>, <<69688, 69702>>, <<69744, 69744>>,
    <<69747, 69748>>, <<69759, 69761>>, <<69811, 69814>>, <<69817, 69818>>,
    <<69821, 69821>>, <<69826, 69826>>, <<69837, 69837>>, <<69888, 69890>>,
    <<69927, 69931>>, <<69933, 69940>>, <<70003, 70003>>, <<70016, 70017>>,
    <<70070, 70078>>, <<70089, 70092>>, <<70095, 70095>>, <<70191, 70193>>,
    <<70196, 70196>>, <<70198, 70199>>, <<70206, 70206>>, <<70367, 70367>>,
    <<70371, 70378>>, <<70400, 70401>>, <<70459, 70460>>, <<70464, 70464>>,
    <<70502, 70508>>, <<70512, 70516>>, <<70712, 70719>>, <<70722, 70724>>,
    <<70726, 70726>>, <<70750, 70750>>, <<70835, 70840>>, <<70842, 70842>>,
    <<70847, 70848>>, <<70850, 70851>>, <<71090, 71093>>, <<71100, 71101>>,
    <<71103, 71104>>, <<71132, 71133>>, <<71219, 71226>>, <<71229, 71229>>,
    <<71231, 71232>>, <<71339, 71339>>, <<71341, 71341>>, <<71344, 71349>>,
    <<71351, 71351>>, <<71453, 71455>>, <<71458, 71461>>, <<71463, 71467>>,
    <<71727, 71735>>, <<71737, 71738>>, <<71995, 71996>>, <<71998, 71998>>,
    <<72003, 72003>>, <<72148, 72151>>, <<72154, 72155>>, <<72160, 72160>>,
    <<72193, 72202>>, <<72243, 72248>>, <<72251, 72254>>, <<72263, 72263>>,
    <<72273, 72278>>, <<72281, 72283>>, <<72330, 72342>>, <<72344, 72345>>,
    <<72752, 72758>>, <<72760, 72765>>, <<72767, 72767>>, <<72850, 72871>>,
    <<72874, 72880>>, <<72882, 72883>>, <<72885, 72886>>, <<73009, 73014>>,
    <<73018, 73018>>, <<73020, 73021>>, <<73023, 73029>>, <<73031, 73031>>,
    <<73104, 73105>>, <<73109, 73109>>, <<73111, 73111>>, <<73459, 73460>>,
    <<78896, 78904>>, <<92912, 92916>>, <<92976, 92982>>, <<92992, 92995>>,
    <<94031, 94031>>, <<94095, 94111>>, <<94176, 94177>>, <<94179, 94180>>,
    <<110576, 110579>>, <<110581, 110587>>, <<110589, 110590>>,
    <<113821, 113822>>, <<113824, 113827>>, <<118528, 118573>>,
    <<118576, 118598>>, <<119143, 119145>>, <<119155, 119170>>,
    <<119173, 119179>>, <<119210, 119213>>, <<119362, 119364>>,
    <<121344, 121398>>, <<121403, 121452>>, <<121461, 121461>>,
    <<121476, 121476>>, <<121499, 121503>>, <<121505, 121519>>,
    <<122880, 122886>>, <<122888, 122904>>, <<122907, 122913>>,
    <<122915, 122916>>, <<122918, 122922>>, <<123184, 123197>>,
    <<123566, 123566>>, <<123628, 123631>>, <<125136, 125142>>,
    <<125252, 125259>>, <<127995, 127999>>, <<917505, 917505>>,
    <<917536, 917631>>, <<917760, 917999>>>>


\* the lowercase mapping of a code point mapped to one code point: ASCII
\* A..Z (65..90) map to a..z, the other ASCII characters (below 128) to
\* themselves, the others by the table
LowerChar(c) ==
  IF c < 128 THEN (IF 65 <= c /\ c <= 90 THEN c + 32 ELSE c)
  ELSE LET rules == {i \in 1..Len(LowerRules) :
                       /\ LowerRules[i][1] <= c
                       /\ c <= LowerRules[i][2]
                       /\ (c - LowerRules[i][1]) % LowerRules[i][3] = 0}
       IN  IF rules = {} THEN c ELSE c + LowerRules[CHOOSE i \in rules : TRUE][4]

\* the position of the first character of s before i (after i) that is not
\* case-ignorable, 0 (Len(s) + 1) without one
PrevNotIgnorable(s, i) ==
  LET js == {j \in 1..(i - 1) : ~InRanges(s[j], CaseIgnorableRanges)}
  IN  IF js = {} THEN 0 ELSE CHOOSE j \in js : \A k \in js : k <= j

NextNotIgnorable(s, i) ==
  LET js == {j \in (i + 1)..Len(s) : ~InRanges(s[j], CaseIgnorableRanges)}
  IN  IF js = {} THEN Len(s) + 1 ELSE CHOOSE j \in js : \A k \in js : j <= k

\* a capital sigma at the end of a word: after a cased letter and not
\* before one, case-ignorable characters skipped
IsFinalSigma(s, i) ==
  LET p == PrevNotIgnorable(s, i)
      n == NextNotIgnorable(s, i)
  IN  /\ p > 0 /\ InRanges(s[p], CasedRanges)
      /\ n > Len(s) \/ ~InRanges(s[n], CasedRanges)

\* the lowercase of the character s[i], one or two code points: GREEK
\* CAPITAL LETTER SIGMA (931) gives the final (962) or the plain (963) small
\* sigma, LATIN CAPITAL LETTER I WITH DOT ABOVE (304) gives i and COMBINING
\* DOT ABOVE
LowerAt(s, i) ==
  IF s[i] = 931 THEN (IF IsFinalSigma(s, i) THEN <<962>> ELSE <<963>>)
  ELSE IF s[i] = 304 THEN <<105, 775>>
  ELSE <<LowerChar(s[i])>>

\* the number of code points of the lowercase of s[1..i]
LowerLen(s, i) == i + Cardinality({j \in 1..i : s[j] = 304})

\* the character of s whose lowercase holds position k of s.lower()
LowerSource(s, k) ==
  CHOOSE i \in 1..Len(s) : LowerLen(s, i - 1) < k /\ k <= LowerLen(s, i)

\* s.lower()
Lower(s) ==
  IF \A i \in 1..Len(s) : s[i] < 128
  THEN [i \in 1..Len(s) |-> LowerChar(s[i])]
  ELSE [k \in 1..LowerLen(s, Len(s)) |->
          LowerAt(s, LowerSource(s, k))[k - LowerLen(s, LowerSource(s, k) - 1)]]

\* the subsequence of s of the characters in set keepSet: re.sub of the
\* complement, str.replace of a character
Filter(s, keepSet) ==
  LET Kept(c) == c \in keepSet
  IN  SelectSeq(s, Kept)

\* all strings over alphabet of length at most n
RECURSIVE StringsUpTo(_, _)
StringsUpTo(alphabet, n) ==
  IF n = 0 THEN {<<>>}
  ELSE LET shorter == StringsUpTo(alphabet, n - 1)
       IN  shorter \cup {Append(s, c) : s \in shorter, c \in alphabet}

\* max and min of a non-empty set of integers
MaxOf(S) == CHOOSE x \in S : \A y \in S : y <= x
MinOf(S) == CHOOSE x \in S : \A y \in S : x <= y

(***************************************************************************)
(* Natural numbers of any size, for the arithmetic of float(): the         *)
(* sequence of the digits in base 2^15, least significant first, without   *)
(* leading zero digits (0 is <<>>).                                        *)
(***************************************************************************)
Base == 32768
LimbBits == 15

RECURSIVE Pow2(_)
Pow2(n) == IF n = 0 THEN 1 ELSE 2 * Pow2(n - 1)

RECURSIVE BigTrim(_)
BigTrim(n) ==
  IF n # <<>> /\ n[Len(n)] = 0 THEN BigTrim(SubSeq(n, 1, Len(n) - 1)) ELSE n

\* n * k + c, for 0 <= k < Base and 0 <= c < Base
RECURSIVE BigMulAddLoop(_, _, _, _)
BigMulAddLoop(n, i, k, c) ==
  IF i > Len(n) THEN (IF c = 0 THEN <<>> ELSE <<c>>)
  ELSE <<(n[i] * k + c) % Base>> \o BigMulAddLoop(n, i + 1, k, (n[i] * k + c) \div Base)

BigMulAdd(n, k, c) == BigTrim(BigMulAddLoop(n, 1, k, c))

\* the division of the digits i.. of n by d, 0 < d < 2 * Base:
\* quotient digits and remainder
BigDivStep(hi, limb, d) ==
  [q |-> <<(hi.r * Base + limb) \div d>> \o hi.q, r |-> (hi.r * Base + limb) % d]

RECURSIVE BigDivLoop(_, _, _)
BigDivLoop(n, i, d) ==
  IF i > Len(n) THEN [q |-> <<>>, r |-> 0]
  ELSE BigDivStep(BigDivLoop(n, i + 1, d), n[i], d)

BigDivTrim(x) == [q |-> BigTrim(x.q), r |-> x.r]
BigDivSmall(n, d) == BigDivTrim(BigDivLoop(n, 1, d))

\* the number of bits of a digit
RECURSIVE LimbBitLen(_)
LimbBitLen(x) == IF x = 0 THEN 0 ELSE 1 + LimbBitLen(x \div 2)

BigBitLen(n) ==
  IF n = <<>> THEN 0 ELSE (Len(n) - 1) * LimbBits + LimbBitLen(n[Len(n)])

\* n * 2^k
BigShiftLeft(n, k) ==
  IF n = <<>> THEN <<>>
  ELSE [i \in 1..(k \div LimbBits) |-> 0] \o BigMulAdd(n, Pow2(k % LimbBits), 0)

\* n \div 2^k, and whether a non-zero bit was shifted out
BigShiftRightStep(x, lowNonZero) == [q |-> x.q, sticky |-> lowNonZero \/ x.r # 0]

BigShiftRight(n, k) ==
  IF k \div LimbBits >= Len(n) THEN [q |-> <<>>, sticky |-> n # <<>>]
  ELSE BigShiftRightStep(
         BigDivSmall(SubSeq(n, k \div LimbBits + 1, Len(n)), Pow2(k % LimbBits)),
         \E i \in 1..(k \div LimbBits) : n[i] # 0)

\* -1, 0, 1 as a < b, a = b, a > b
RECURSIVE BigCmpLoop(_, _, _)
BigCmpLoop(a, b, i) ==
  IF i = 0 THEN 0
  ELSE IF a[i] < b[i] THEN -1
  ELSE IF a[i] > b[i] THEN 1
  ELSE BigCmpLoop(a, b, i - 1)

BigCmp(a, b) ==
  IF Len(a) < Len(b) THEN -1
  ELSE IF Len(a) > Len(b) THEN 1
  ELSE BigCmpLoop(a, b, Len(a))

Limb(n, i) == IF i <= Len(n) THEN n[i] ELSE 0

RECURSIVE BigAddLoop(_, _, _, _)
BigAddLoop(a, b, i, c) ==
  IF i > Len(a) /\ i > Len(b) THEN (IF c = 0 THEN <<>> ELSE <<c>>)
  ELSE <<(Limb(a, i) + Limb(b, i) + c) % Base>>
       \o BigAddLoop(a, b, i + 1, (Limb(a, i) + Limb(b, i) + c) \div Base)

BigAdd(a, b) == BigAddLoop(a, b, 1, 0)

\* a - b, for a >= b
RECURSIVE BigSubLoop(_, _, _, _)
BigSubLoop(a, b, i, borrow) ==
  IF i > Len(a) THEN <<>>
  ELSE <<(a[i] - Limb(b, i) - borrow + Base) % Base>>
       \o BigSubLoop(a, b, i + 1, IF a[i] - Limb(b, i) - borrow < 0 THEN 1 ELSE 0)

BigSub(a, b) == BigTrim(BigSubLoop(a, b, 1, 0))

BigIsOdd(n) == n # <<>> /\ n[1] % 2 = 1

\* the number of trailing zero bits of n # 0
RECURSIVE LimbTrailingZeros(_)
LimbTrailingZeros(x) == IF x % 2 = 1 THEN 0 ELSE 1 + LimbTrailingZeros(x \div 2)

RECURSIVE BigTrailingZerosLoop(_, _)
BigTrailingZerosLoop(n, i) ==
  IF n[i] = 0 THEN LimbBits + BigTrailingZerosLoop(n, i + 1)
  ELSE LimbTrailingZeros(n[i])

BigTrailingZeros(n) == BigTrailingZerosLoop(n, 1)

(***************************************************************************)
(* A Python float: an IEEE 754 binary64 value.  A finite value is          *)
(* (-1)^neg * mant * 2^exp with mant odd, or mant = 0 and exp = 0;         *)
(* an infinity has inf = TRUE, a nan has nan = TRUE.                       *)
(***************************************************************************)
Precision == 53
MinExp == -1074
MaxBits == 1024

None == [isNone |-> TRUE, nan |-> FALSE, inf |-> FALSE, neg |-> FALSE, mant |-> <<>>, exp |-> 0]
Zero(neg) == [isNone |-> FALSE, nan |-> FALSE, inf |-> FALSE, neg |-> neg, mant |-> <<>>, exp |-> 0]
FloatNaN == [isNone |-> FALSE, nan |-> TRUE, inf |-> FALSE, neg |-> FALSE, mant |-> <<>>, exp |-> 0]
Infinity(neg) == [isNone |-> FALSE, nan |-> FALSE, inf |-> TRUE, neg |-> neg, mant |-> <<>>, exp |-> 0]

\* the float of value mant * 2^exp that has at most Precision bits
FloatOfTz(neg, mant, exp, tz) ==
  IF BigBitLen(mant) + exp > MaxBits THEN Infinity(neg)
  ELSE [isNone |-> FALSE, nan |-> FALSE, inf |-> FALSE, neg |-> neg,
        mant |-> BigShiftRight(mant, tz).q, exp |-> exp + tz]

FloatOf(neg, mant, exp) ==
  IF mant = <<>> THEN Zero(neg)
  ELSE FloatOfTz(neg, mant, exp, BigTrailingZeros(mant))

\* x.q holds the value shifted right by drop - 1 bits: its last bit is the
\* first dropped bit; round half to even
RoundShifted(neg, x, sticky, exp) ==
  IF BigIsOdd(x.q) /\ (x.sticky \/ sticky \/ BigIsOdd(BigShiftRight(x.q, 1).q))
  THEN FloatOf(neg, BigMulAdd(BigShiftRight(x.q, 1).q, 1, 1), exp)
  ELSE FloatOf(neg, BigShiftRight(x.q, 1).q, exp)

RoundDrop(neg, q, exp, sticky, drop) ==
  IF drop <= 0 THEN FloatOf(neg, q, exp)
  ELSE RoundShifted(neg, BigShiftRight(q, drop - 1), sticky, exp + drop)

\* the float nearest to (q + t) * 2^exp, ties to even, where t = 0 when
\* sticky is false and 0 < t < 1 otherwise
RoundToFloat(neg, q, exp, sticky) ==
  RoundDrop(neg, q, exp, sticky, MaxOf({BigBitLen(q) - Precision, MinExp - exp}))

\* one division of the quotient so far, keeping whether a remainder was dropped
BigDivPowStep(prev, x) == [q |-> x.q, sticky |-> prev.sticky \/ x.r # 0]

BigDivPowNext(prev, d) == BigDivPowStep(prev, BigDivSmall(prev.q, d))

RECURSIVE Pow5(_)
Pow5(n) == IF n = 0 THEN 1 ELSE 5 * Pow5(n - 1)

\* q \div 5^f and whether the division left a remainder; six powers at a time
RECURSIVE BigDivPow5(_, _)
BigDivPow5(q, f) ==
  IF f = 0 THEN [q |-> q, sticky |-> FALSE]
  ELSE IF f < 6 THEN BigDivPowNext([q |-> q, sticky |-> FALSE], Pow5(f))
  ELSE BigDivPowNext(BigDivPow5(q, f - 6), 15625)

\* the number of the decimal digit values ds[lo..hi]
RECURSIVE DigitsValue(_, _, _)
DigitsValue(ds, lo, hi) ==
  IF lo > hi THEN 0 ELSE 10 * DigitsValue(ds, lo, hi - 1) + ds[hi]

\* the number of the decimal digit values ds[1..i]; four digits at a time
RECURSIVE BigOfDigits(_, _)
BigOfDigits(ds, i) ==
  IF i = 0 THEN <<>>
  ELSE IF i < 4 THEN BigMulAdd(<<>>, 1, DigitsValue(ds, 1, i))
  ELSE BigMulAdd(BigOfDigits(ds, i - 4), 10000, DigitsValue(ds, i - 3, i))

RoundQuotient(neg, x, exp) == RoundToFloat(neg, x.q, exp, x.sticky)

FloatOfDecimalShift(neg, d, f, s) ==
  RoundQuotient(neg, BigDivPow5(BigShiftLeft(d, s), f), 0 - s - f)

\* the float nearest to d / 10^f
FloatOfDecimal(neg, d, f) ==
  IF d = <<>> THEN Zero(neg)
  ELSE FloatOfDecimalShift(neg, d, f, MaxOf({0, 65 + (f * 2322) \div 1000 - BigBitLen(d)}))

RoundDivided(x, exp) == RoundToFloat(FALSE, x.q, exp, x.r # 0)

\* the float nearest to n / d, for integers 0 <= n and 0 < d < 2 * Base
FloatOfQuotientShift(n, d, s) ==
  RoundDivided(BigDivSmall(BigShiftLeft(n, s), d), 0 - s)

FloatOfQuotient(n, d) ==
  IF n = <<>> THEN Zero(FALSE)
  ELSE FloatOfQuotientShift(n, d, 64 + LimbBitLen(d))

\* |x| compared with |y|, finite floats: -1, 0, 1
MagCmpAligned(x, y, e) ==
  BigCmp(BigShiftLeft(x.mant, x.exp - e), BigShiftLeft(y.mant, y.exp - e))

MagCmp(x, y) ==
  IF x.mant = <<>> \/ y.mant = <<>>
  THEN (IF x.mant = y.mant THEN 0 ELSE IF x.mant = <<>> THEN -1 ELSE 1)
  ELSE IF BigBitLen(x.mant) + x.exp < BigBitLen(y.mant) + y.exp THEN -1
  ELSE IF BigBitLen(x.mant) + x.exp > BigBitLen(y.mant) + y.exp THEN 1
  ELSE MagCmpAligned(x, y, IF x.exp < y.exp THEN x.exp ELSE y.exp)

\* x - y for finite floats
FloatSubAligned(x, y, a, b, e) ==
  IF x.neg # y.neg THEN RoundToFloat(x.neg, BigAdd(a, b), e, FALSE)
  ELSE IF BigCmp(a, b) >= 0 THEN RoundToFloat(x.neg, BigSub(a, b), e, FALSE)
  ELSE RoundToFloat(~x.neg, BigSub(b, a), e, FALSE)

FloatSubExp(x, y, e) ==
  FloatSubAligned(x, y, BigShiftLeft(x.mant, x.exp - e), BigShiftLeft(y.mant, y.exp - e), e)

\* the position of the leading bit of a finite float that is not zero
FloatTop(x) == BigBitLen(x.mant) + x.exp

\* an operand whose leading bit lies this far below the other's is less
\* than half of the other's unit in the last place: the difference rounds
\* to the other operand
NegligibleBits == 60

FloatSubFinite(x, y) ==
  IF x.mant = <<>> /\ y.mant = <<>> THEN Zero(x.neg /\ ~y.neg)
  ELSE IF y.mant = <<>> THEN x
  ELSE IF x.mant = <<>> THEN [y EXCEPT !.neg = ~y.neg]
  ELSE IF x.neg = y.neg /\ x.mant = y.mant /\ x.exp = y.exp THEN Zero(FALSE)
  ELSE IF FloatTop(y) < FloatTop(x) - NegligibleBits THEN x
  ELSE IF FloatTop(x) < FloatTop(y) - NegligibleBits THEN [y EXCEPT !.neg = ~y.neg]
  ELSE FloatSubExp(x, y, IF x.exp < y.exp THEN x.exp ELSE y.exp)

\* x - y
FloatSub(x, y) ==
  IF x.nan \/ y.nan THEN FloatNaN
  ELSE IF x.inf /\ y.inf THEN (IF x.neg = y.neg THEN FloatNaN ELSE x)
  ELSE IF x.inf THEN x
  ELSE IF y.inf THEN Infinity(~y.neg)
  ELSE FloatSubFinite(x, y)

\* abs(x)
FloatAbs(x) == [x EXCEPT !.neg = FALSE]

\* |x| compared with |y|, neither a nan: -1, 0, 1
MagCmpInf(x, y) ==
  IF x.inf /\ y.inf THEN 0
  ELSE IF x.inf THEN 1
  ELSE IF y.inf THEN -1
  ELSE MagCmp(x, y)

\* -1, 0, 1 as x is negative, a zero, positive
FloatSign(x) == IF ~x.inf /\ x.mant = <<>> THEN 0 ELSE IF x.neg THEN -1 ELSE 1

\* x compared with y, neither a nan: -1, 0, 1
FloatCmp(x, y) ==
  IF FloatSign(x) # FloatSign(y) THEN (IF FloatSign(x) < FloatSign(y) THEN -1 ELSE 1)
  ELSE IF FloatSign(x) = 0 THEN 0
  ELSE IF FloatSign(x) > 0 THEN MagCmpInf(x, y)
  ELSE MagCmpInf(y, x)

\* x <= y
FloatLe(x, y) == ~x.nan /\ ~y.nan /\ FloatCmp(x, y) <= 0


(***************************************************************************)
(* parse_number (src/app.py 30-51).                                        *)
(***************************************************************************)
\* unary minus on a float
Neg(v) == [v EXCEPT !.neg = ~v.neg]

\* the characters re.sub(r"[^\d\-\.\,\(\)]", "", s) keeps
KeptChars == Digits \cup {Ord("-"), Ord("."), Ord(","), Ord("("), Ord(")")}

\* the number of characters of body after its "."
FracLen(body) ==
  IF \E i \in 1..Len(body) : body[i] = Ord(".")
  THEN Len(body) - (CHOOSE i \in 1..Len(body) : body[i] = Ord("."))
  ELSE 0

\* digits with at most one "." and at least one digit
IsDecimalBody(body) ==
  /\ \A i \in 1..Len(body) : body[i] \in Digits \cup {Ord(".")}
  /\ Cardinality({i \in 1..Len(body) : body[i] = Ord(".")}) <= 1
  /\ \E i \in 1..Len(body) : body[i] \in Digits

\* the float nearest to the numeral body, None for no numeral
PyFloatBody(neg, body) ==
  IF IsDecimalBody(body)
  THEN FloatOfDecimal(neg,
                      BigOfDigits([i \in 1..Len(Filter(body, Digits)) |->
                                     DigitVal(Filter(body, Digits)[i])],
                                  Len(Filter(body, Digits))),
                      FracLen(body))
  ELSE None

\* float(s) for a str s over KeptChars without ",": None models ValueError.
\* Accepted: an optional "-", then digits with at most one "." and at least
\* one digit ("1.", ".5" and "-.5" are accepted; ".", "-", "1-", "(1" are
\* not); the value is the float nearest to the decimal, ties to even.
PyFloat(s) ==
  IF s # <<>> /\ s[1] = Ord("-") THEN PyFloatBody(TRUE, Tail(s))
  ELSE PyFloatBody(FALSE, s)

\* re.match(r"^\(.*\)$", s)
IsParenthesized(s) == Len(s) >= 2 /\ s[1] = Ord("(") /\ s[Len(s)] = Ord(")")

NegOrNone(f) == IF f.isNone THEN None ELSE Neg(f)

\* faulty variant: the parenthesized branch forgets the negation
parse_number_no_negation(cell) ==
  IF cell = NaN THEN None
  ELSE LET s0 == Strip(cell)
           s  == Filter(s0, KeptChars)
       IN  IF s0 = <<>> THEN None
           ELSE IF IsParenthesized(s)
                THEN PyFloat(Filter(SubSeq(s, 2, Len(s) - 1), KeptChars \ {Ord(",")}))
                ELSE PyFloat(Filter(s, KeptChars \ {Ord(",")}))

parse_number(cell) ==
  IF cell = NaN THEN None
  ELSE LET s0 == Strip(cell)
           s  == Filter(s0, KeptChars)
       IN  IF s0 = <<>> THEN None
           ELSE IF IsParenthesized(s)
                THEN NegOrNone(PyFloat(Filter(SubSeq(s, 2, Len(s) - 1),
                                              KeptChars \ {Ord(",")})))
                ELSE PyFloat(Filter(s, KeptChars \ {Ord(",")}))

(***************************************************************************)
(* similar (src/app.py 53-54): SequenceMatcher(None, a.lower(),            *)
(* b.lower()).ratio().  isjunk is None, so no character of b is junk and   *)
(* the junk-extension loops of find_longest_match never iterate; autojunk  *)
(* is on (the default), so the "popular" characters of a b of 200 or more  *)
(* characters are left out of b2j.  Indices are 1-based; a range is        *)
(* alo..ahi-1.                                                             *)
(***************************************************************************)
\* "if self.autojunk and n >= 200: ntest = n // 100 + 1"
AutojunkMinLen == 200
AutojunkDivisor == 100

\* bpopular: the characters occurring more than ntest times in a long b
bpopular(b) ==
  IF Len(b) >= AutojunkMinLen
  THEN {b[j] : j \in {j \in 1..Len(b) :
                        Cardinality({k \in 1..Len(b) : b[k] = b[j]})
                          > Len(b) \div AutojunkDivisor + 1}}
  ELSE {}

\* find_longest_match: the loop over i, carrying j2len and the best block.
\* For each i the inner loop visits the j of b2j[a[i]] (none for a popular
\* character) in increasing order and replaces the best block only on a
\* strictly larger size.
RECURSIVE find_longest_match_loop(_, _, _, _, _, _, _, _, _)
find_longest_match_loop(a, b, popular, i, ahi, blo, bhi, j2len, best) ==
  IF i >= ahi THEN best
  ELSE LET js       == {j \in blo..(bhi - 1) : b[j] = a[i] /\ b[j] \notin popular}
           newj2len == [j \in js |->
                          (IF (j - 1) \in DOMAIN j2len THEN j2len[j - 1] ELSE 0) + 1]
           kmax     == MaxOf({newj2len[j] : j \in js})
           jfirst   == MinOf({j \in js : newj2len[j] = kmax})
           newbest  == IF js # {} /\ kmax > best.size
                       THEN [i |-> i - kmax + 1, j |-> jfirst - kmax + 1, size |-> kmax]
                       ELSE best
       IN  find_longest_match_loop(a, b, popular, i + 1, ahi, blo, bhi, newj2len, newbest)

\* "while besti > alo and bestj > blo and not isbjunk(b[bestj-1]) and
\* a[besti-1] == b[bestj-1]": the number of iterations
extend_back_count(a, b, alo, blo, best) ==
  MaxOf({n \in 0..MinOf({best.i - alo, best.j - blo}) :
           \A t \in 1..n : a[best.i - t] = b[best.j - t]})

extend_back(best, n) ==
  [i |-> best.i - n, j |-> best.j - n, size |-> best.size + n]

\* "while besti+bestsize < ahi and bestj+bestsize < bhi and not
\* isbjunk(b[bestj+bestsize]) and a[besti+bestsize] == b[bestj+bestsize]":
\* the number of iterations
extend_forward_count(a, b, ahi, bhi, best) ==
  MaxOf({n \in 0..MinOf({ahi - best.i - best.size, bhi - best.j - best.size}) :
           \A t \in 0..(n - 1) :
             a[best.i + best.size + t] = b[best.j + best.size + t]})

extend_forward(best, n) == [i |-> best.i, j |-> best.j, size |-> best.size + n]

\* the two loops that extend the best block by equal characters on both
\* sides, popular ones included
extend_forward_from(a, b, ahi, bhi, best) ==
  extend_forward(best, extend_forward_count(a, b, ahi, bhi, best))

extend_match(a, b, alo, ahi, blo, bhi, best) ==
  extend_forward_from(a, b, ahi, bhi,
                      extend_back(best, extend_back_count(a, b, alo, blo, best)))

find_longest_match(a, b, popular, alo, ahi, blo, bhi) ==
  extend_match(a, b, alo, ahi, blo, bhi,
               find_longest_match_loop(a, b, popular, alo, ahi, blo, bhi, <<>>,
                                       [i |-> alo, j |-> blo, size |-> 0]))

\* get_matching_blocks: the total size of the matching blocks
RECURSIVE matching_size(_, _, _, _, _, _, _)
matching_size(a, b, popular, alo, ahi, blo, bhi) ==
  LET x == find_longest_match(a, b, popular, alo, ahi, blo, bhi)
  IN  IF x.size = 0 THEN 0
      ELSE x.size
           + (IF alo < x.i /\ blo < x.j
              THEN matching_size(a, b, popular, alo, x.i, blo, x.j) ELSE 0)
           + (IF x.i + x.size < ahi /\ x.j + x.size < bhi
              THEN matching_size(a, b, popular, x.i + x.size, ahi, x.j + x.size, bhi)
              ELSE 0)

\* ratio(): 2.0 * matches / length, and 1.0 when both strings are empty
ratio(la, lb) ==
  IF Len(la) + Len(lb) > 0
  THEN [num |-> 2 * matching_size(la, lb, bpopular(lb), 1, Len(la) + 1, 1, Len(lb) + 1),
        den |-> Len(la) + Len(lb)]
  ELSE [num |-> 1, den |-> 1]

similar(a, b) == ratio(Lower(a), Lower(b))

\* comparisons of ratios (den > 0)
RatioGt(x, y) == x.num * y.den > y.num * x.den
\* ratio >= the slider value t / 100
RatioGeHundredths(x, t) == x.num * 100 >= t * x.den

(***************************************************************************)
(* f"{best_score:.2f}" (src/app.py 372).                                   *)
(***************************************************************************)
RECURSIVE BigOfInt(_)
BigOfInt(n) == IF n = 0 THEN <<>> ELSE <<n % Base>> \o BigOfInt(n \div Base)

\* the float 2.0 * matches / length of a ratio
RatioFloat(x) == FloatOfQuotient(BigOfInt(x.num), x.den)

DigitStr == <<"0", "1", "2", "3", "4", "5", "6", "7", "8", "9">>

\* str(n) of a natural number n > 0, "" for 0
RECURSIVE BigDecimalStr(_)
BigDecimalStrNext(x) == BigDecimalStr(x.q) \o DigitStr[x.r + 1]
BigDecimalStr(n) == IF n = <<>> THEN "" ELSE BigDecimalStrNext(BigDivSmall(n, 10))

\* q + 1 when the bit dropped last is set and a lower bit or the last bit
\* of half is: round half to even; half is bits \div 2
RoundHalfEvenPick(bits, sticky, half) ==
  IF BigIsOdd(bits) /\ (sticky \/ BigIsOdd(half)) THEN BigMulAdd(half, 1, 1)
  ELSE half

RoundHalfEven(x) == RoundHalfEvenPick(x.q, x.sticky, BigShiftRight(x.q, 1).q)

\* the integer nearest to n * 2^exp, ties to even
BigScaleRound(n, exp) ==
  IF exp >= 0 THEN BigShiftLeft(n, exp)
  ELSE RoundHalfEven(BigShiftRight(n, 0 - exp - 1))

\* the integer nearest to 100 * |x|, ties to even, for a finite float x
FloatHundredths(x) == BigScaleRound(BigMulAdd(x.mant, 100, 0), x.exp)

FixedStr(neg, x) ==
  (IF neg THEN "-" ELSE "")
    \o (IF x.q = <<>> THEN "0" ELSE BigDecimalStr(x.q)) \o "."
    \o DigitStr[(x.r \div 10) + 1] \o DigitStr[(x.r % 10) + 1]

\* "%.2f" % x for a float x
FormatFixed2(x) ==
  IF x.inf THEN (IF x.neg THEN "-inf" ELSE "inf")
  ELSE FixedStr(x.neg, BigDivSmall(FloatHundredths(x), 100))

(***************************************************************************)
(* dict.                                                                   *)
(***************************************************************************)
\* k in d
dict_has(d, k) == \E i \in 1..Len(d) : d[i].key = k

\* d[k]
dict_get(d, k) == d[CHOOSE i \in 1..Len(d) : d[i].key = k].val

\* d[k] = v: an existing key keeps its place in the iteration order
dict_set(d, k, v) ==
  IF dict_has(d, k)
  THEN [i \in 1..Len(d) |-> IF d[i].key = k THEN [key |-> k, val |-> v] ELSE d[i]]
  ELSE Append(d, [key |-> k, val |-> v])

(***************************************************************************)
(* Column labels (src/app.py 190-243) and get_cell (285-294).              *)
(***************************************************************************)
\* header_row is None: "No header"
NoHeader == -1

AlphabetLen == 26

\* col_letter(idx): A..Z, AA, AB, ...
RECURSIVE col_letter(_)
col_letter(idx) ==
  IF idx \div AlphabetLen = 0 THEN <<Ord("A") + (idx % AlphabetLen)>>
  ELSE col_letter((idx \div AlphabetLen) - 1) \o <<Ord("A") + (idx % AlphabetLen)>>

\* str(n) of an int n >= 0
RECURSIVE IntStr(_)
IntStr(n) ==
  IF n < 10 THEN <<Ord("0") + n>> ELSE IntStr(n \div 10) \o <<Ord("0") + (n % 10)>>

\* an element of raw_df.iloc[header_row].astype(str): an empty cell reads "nan"
header_value(cell) == IF cell = NaN THEN Str(<<"n", "a", "n">>) ELSE cell

\* txt = v.strip() if v.strip() != "" else f"Column_{col_letter(i)}"
header_txt(v, i) ==
  IF Strip(v) # <<>> THEN Strip(v)
  ELSE Str(<<"C", "o", "l", "u", "m", "n", "_">>) \o col_letter(i)

\* the loop of lines 231-238 from column i (0-based) on: a label seen
\* before gets the suffix _n, and the label so made is not entered in seen
RECURSIVE header_cols_loop(_, _, _, _)
header_cols_step(header_values, i, seen, cols, txt) ==
  IF dict_has(seen, txt)
  THEN header_cols_loop(header_values, i + 1,
                        dict_set(seen, txt, dict_get(seen, txt) + 1),
                        Append(cols, txt \o <<Ord("_")>> \o IntStr(dict_get(seen, txt) + 1)))
  ELSE header_cols_loop(header_values, i + 1, dict_set(seen, txt, 0), Append(cols, txt))

header_cols_loop(header_values, i, seen, cols) ==
  IF i >= Len(header_values) THEN cols
  ELSE header_cols_step(header_values, i, seen, cols,
                        header_txt(header_values[i + 1], i))

\* display_cols of a sheet raw_df read with the header choice h
make_display_cols(raw_df, h) ==
  IF h = NoHeader THEN [i \in 1..Len(raw_df[1]) |-> col_letter(i - 1)]
  ELSE header_cols_loop([i \in 1..Len(raw_df[h + 1]) |-> header_value(raw_df[h + 1][i])],
                        0, <<>>, <<>>)

\* df: the whole sheet, or raw_df.iloc[header_row + 1 :]
make_df(raw_df, h) ==
  IF h = NoHeader THEN raw_df ELSE SubSeq(raw_df, h + 2, Len(raw_df))

\* what get_cell gives when df.iat raises (IndexError for a row outside df,
\* ValueError for a column position that is not an integer)
Raised == <<-2>>

\* the positions of a label in df.columns; get_loc gives the position of a
\* label that occurs once, and a slice or a mask otherwise
label_positions(cols, label) == {i \in 1..Len(cols) : cols[i] = label}

\* get_cell(df_inner, row_idx, col_idx); header_row and display_cols are
\* those of the enclosing script
get_cell(df_inner, row_idx, col_idx) ==
  IF row_idx >= Len(df_inner) THEN Raised
  ELSE IF header_row = NoHeader THEN df_inner[row_idx + 1][col_idx + 1]
  ELSE IF Cardinality(label_positions(display_cols, display_cols[col_idx + 1])) # 1
       THEN Raised
  ELSE df_inner[row_idx + 1][CHOOSE i \in label_positions(display_cols,
                                                           display_cols[col_idx + 1]) : TRUE]

(***************************************************************************)
(* Run Validation (src/app.py 307-405): helpers.                           *)
(***************************************************************************)
\* pd.isna(name_cell) or str(name_cell).strip() == ""
is_blank(cell) == cell = NaN \/ Strip(cell) = <<>>

\* "try: name_cell = get_cell(...) except Exception: continue" and
\* "if pd.isna(name_cell) or ...: continue"
name_skipped(cell) == cell = Raised \/ is_blank(cell)

\* the right-side record of row row_idx
right_record(d, row_idx) ==
  [row    |-> row_idx,
   name   |-> Strip(get_cell(d, row_idx, mapping.right_name_idx)),
   budget |-> parse_number(get_cell(d, row_idx, mapping.right_budget_idx)),
   actual |-> parse_number(get_cell(d, row_idx, mapping.right_actual_idx))]

\* get_cell raises outside a try block: the right loop at row row_idx
right_row_raises(d, row_idx) ==
  /\ ~name_skipped(get_cell(d, row_idx, mapping.right_name_idx))
  /\ \/ get_cell(d, row_idx, mapping.right_budget_idx) = Raised
     \/ get_cell(d, row_idx, mapping.right_actual_idx) = Raised

\* get_cell raises outside a try block: the left loop at row row_idx
left_row_raises(d, row_idx) ==
  /\ ~name_skipped(get_cell(d, row_idx, mapping.left_name_idx))
  /\ \/ get_cell(d, row_idx, mapping.left_budget_idx) = Raised
     \/ get_cell(d, row_idx, mapping.left_actual_idx) = Raised

\* Python None where a right-side record is expected (best, rm)
NoRecord == [isNone |-> TRUE, row |-> -1, name |-> <<>>, budget |-> None, actual |-> None]
Some(v) == [isNone |-> FALSE, row |-> v.row, name |-> v.name,
            budget |-> v.budget, actual |-> v.actual]

\* faulty variant: the whole grid to its last row
right_loop_last_whole_grid == Len(df) - 1

\* the last row the right_map loop visits: range(start_row, end_row + 1)
right_loop_last == end_row

\* faulty variant: a later candidate with an equal score replaces the retained one
scan_improves_or_ties(s, best_score) == ~RatioGt(best_score, s)

\* s > best_score
scan_improves(s, best_score) == RatioGt(s, best_score)

\* the scan "for k, v in right_map.items()" from item idx on
RECURSIVE best_candidate_loop(_, _, _, _, _)
best_candidate_loop(left_key, rmap, idx, best, best_score) ==
  IF idx > Len(rmap) THEN [best |-> best, best_score |-> best_score]
  ELSE LET s == similar(left_key, rmap[idx].key)
       IN  IF scan_improves(s, best_score)
           THEN best_candidate_loop(left_key, rmap, idx + 1, Some(rmap[idx].val), s)
           ELSE best_candidate_loop(left_key, rmap, idx + 1, best, best_score)

\* best = None; best_score = 0.0; the scan
best_candidate(left_key, rmap) ==
  best_candidate_loop(left_key, rmap, 1, NoRecord, [num |-> 0, den |-> 1])

\* faulty variant: a score equal to the threshold is rejected
accept_strict(best, best_score, thresh) ==
  ~best.isNone /\ best_score.num * 100 > thresh * best_score.den

\* best and best_score >= sim_thresh
accept(best, best_score, thresh) ==
  ~best.isNone /\ RatioGeHundredths(best_score, thresh)

\* f"Fuzzy match (score {best_score:.2f})"
FuzzyNote(best_score) ==
  "Fuzzy match (score " \o FormatFixed2(RatioFloat(best_score)) \o ")"

NoMatchNote == "No matching parameter found on right side"

\* "if best and best_score >= sim_thresh: rm = best ... else: rm = None ..."
fuzzy_decide(scan, thresh) ==
  IF accept(scan.best, scan.best_score, thresh)
  THEN [rm |-> scan.best, notes |-> <<FuzzyNote(scan.best_score)>>]
  ELSE [rm |-> NoRecord, notes |-> <<NoMatchNote>>]

\* the fuzzy branch: scan, then accept or reject
fuzzy_match(left_key, rmap, thresh) ==
  fuzzy_decide(best_candidate(left_key, rmap), thresh)

\* faulty variant: no exact lookup, every row goes through the fuzzy scan
find_match_fuzzy_only(left_key, rmap, thresh) == fuzzy_match(left_key, rmap, thresh)

\* "if left_key in right_map: rm = right_map[left_key]  else: fuzzy"
find_match(left_key, rmap, thresh) ==
  IF dict_has(rmap, left_key)
  THEN [rm |-> Some(dict_get(rmap, left_key)), notes |-> <<>>]
  ELSE fuzzy_match(left_key, rmap, thresh)

\* faulty variant: the boundary is excluded
within_tolerance_strict(l, rv, tol) ==
  /\ FloatLe(FloatAbs(FloatSub(l, rv)), tol)
  /\ ~FloatLe(tol, FloatAbs(FloatSub(l, rv)))

\* abs(left - right) <= tolerance
within_tolerance(l, rv, tol) == FloatLe(FloatAbs(FloatSub(l, rv)), tol)

\* faulty variant: an unparsable side leaves no note
compare_silent_unparsable(l, rv, tol, field) ==
  IF rv.isNone \/ l.isNone
  THEN [ok |-> "None", notes |-> <<>>]
  ELSE IF within_tolerance(l, rv, tol)
       THEN [ok |-> "True", notes |-> <<>>]
       ELSE [ok |-> "False",
             notes |-> <<IF field = "Budget" THEN "Budget mismatch"
                         ELSE "Actual mismatch">>]

\* the comparison of one numeric field; field is "Budget" or "Actual".
\* ok is "None", "True" or "False".
compare(l, rv, tol, field) ==
  IF rv.isNone \/ l.isNone
  THEN [ok |-> "None",
        notes |-> <<IF field = "Budget" THEN "Budget unparsable on one side"
                    ELSE "Actual unparsable on one side">>]
  ELSE IF within_tolerance(l, rv, tol)
       THEN [ok |-> "True", notes |-> <<>>]
       ELSE [ok |-> "False",
             notes |-> <<IF field = "Budget" THEN "Budget mismatch"
                         ELSE "Actual mismatch">>]

\* the entry dict once the match is known (lines 343-356, 377-401);
\* right_row = -1 and right_name = <<>> stand for None
entry_with_match(row_idx, left_name, left_budget, left_actual, found, tol) ==
  LET b == compare(left_budget, found.rm.budget, tol, "Budget")
      a == compare(left_actual, found.rm.actual, tol, "Actual")
  IN  [left_row     |-> row_idx,
       left_name    |-> left_name,
       left_budget  |-> left_budget,
       left_actual  |-> left_actual,
       match_found  |-> ~found.rm.isNone,
       right_row    |-> found.rm.row,
       right_name   |-> found.rm.name,
       right_budget |-> found.rm.budget,
       right_actual |-> found.rm.actual,
       budget_ok    |-> IF found.rm.isNone THEN "None" ELSE b.ok,
       actual_ok    |-> IF found.rm.isNone THEN "None" ELSE a.ok,
       notes        |-> IF found.rm.isNone THEN found.notes
                        ELSE found.notes \o b.notes \o a.notes]

\* the entry of left row row_idx (lines 338-401)
make_entry(d, row_idx, rmap, tol, thresh) ==
  entry_with_match(row_idx,
                   Strip(get_cell(d, row_idx, mapping.left_name_idx)),
                   parse_number(get_cell(d, row_idx, mapping.left_budget_idx)),
                   parse_number(get_cell(d, row_idx, mapping.left_actual_idx)),
                   find_match(Lower(Strip(get_cell(d, row_idx, mapping.left_name_idx))),
                              rmap, thresh),
                   tol)

\* faulty variant: an unparsable field counts as a mismatch too
is_mismatch_not_true(entry) ==
  (~entry.match_found) \/ entry.budget_ok # "True" \/ entry.actual_ok # "True"

\* (not match_found) or budget_ok is False or actual_ok is False
is_mismatch(entry) ==
  (~entry.match_found) \/ entry.budget_ok = "False" \/ entry.actual_ok = "False"

\* results.append(entry); mismatches.append(entry) if it needs attention
record_entry(entry) ==
  /\ results' = Append(results, entry)
  /\ mismatches' = IF is_mismatch(entry) THEN Append(mismatches, entry)
                   ELSE mismatches

(***************************************************************************)
(* Inputs.                                                                 *)
(***************************************************************************)
\* st.slider("Name fuzzy threshold", min_value=0.4, max_value=1.0, value=0.60,
\* step=0.01), in hundredths
SimThreshMin == 40
SimThreshDefault == 60

\* st.number_input("Numeric tolerance (abs)", min_value=0.0, value=0.01): the
\* float 0.01
ToleranceDefault == FloatOfDecimal(FALSE, <<1>>, 2)

\* the selectboxes' defaults on a sheet of six columns or more (lines 263-269)
DefaultMapping ==
  [left_name_idx |-> 0, left_budget_idx |-> 1, left_actual_idx |-> 2,
   right_name_idx |-> 3, right_budget_idx |-> 4, right_actual_idx |-> 5]

\* a row of a sheet of six columns
Row(ln, lb, la, rn, rb, ra) == <<ln, lb, la, rn, rb, ra>>

\* rows varying in the names: blank and empty name cells, names equal after
\* trim and lowercase (one ends with a NO-BREAK SPACE), names one or two
\* edits apart; the left actual cell holds text
MatchRows ==
  {Row(ln, Str(<<"1", "0", ".", "5">>), Str(<<"n", "/", "a">>),
       rn, Str(<<"1", "0">>), Str(<<"1", ",", "0">>)) :
     ln \in {NaN, Str(<<" ">>), Str(<<" ", "A", "b">>), Str(<<"a", "c">>)},
     rn \in {NaN, Str(<<"a", "b">>) \o <<160>>, Str(<<"c", "b">>), Str(<<"A", "c", "B">>)}}

\* the actual cells of a row, left and right: equal, different, and with an
\* empty right cell
ActualCells ==
  {<<Str(<<"1", "0">>), Str(<<"1", ",", "0">>)>>,
   <<Str(<<"(", "1", "0", ")">>), Str(<<"1", ",", "0">>)>>,
   <<Str(<<"1", "0">>), <<>>>>}

\* the budget cells of a row, left and right: text on the left, empty on the
\* right, 10.5 and 10 (0.5 apart as floats, the right cell with a currency
\* sign), 1.01 and 1 (more than the float 0.01 apart)
BudgetCells ==
  {<<Str(<<"x">>), Str(<<"$", "1", "0">>)>>,
   <<Str(<<"1", "0", ".", "5">>), NaN>>,
   <<Str(<<"1", "0", ".", "5">>), Str(<<"$", "1", "0">>)>>,
   <<Str(<<"1", ".", "0", "1">>), Str(<<"1">>)>>}

\* rows varying in the numeric cells, with a left name equal to the right
\* name after trim and lowercase, or unlike it
CompareRows ==
  {Row(ln, b[1], a[1], Str(<<"a", "b", " ">>), b[2], a[2]) :
     ln \in {Str(<<" ", "A", "b">>), Str(<<"c", "d">>)},
     b \in BudgetCells, a \in ActualCells}

\* rows varying in the names and in the numeric cells together: a left name
\* equal to a right name, one edit from it, or unlike it; text and decimal
\* budget cells
NotesRows ==
  {Row(ln, lb, a[1], rn, Str(<<"1", "0">>), a[2]) :
     ln \in {Str(<<" ", "A", "b">>), Str(<<"a", "c">>)},
     lb \in {Str(<<"x">>), Str(<<"1", "0", ".", "5">>)},
     a \in ActualCells,
     rn \in {Str(<<"a", "b", " ">>), Str(<<"b", "d">>)}}

\* the data rows below a header row
HeaderDataRows ==
  {Row(ln, Str(<<"1", "0", ".", "5">>), Str(<<"1", "0">>),
       rn, Str(<<"1", "0">>), Str(<<"1", ",", "0">>)) :
     ln \in {NaN, Str(<<" ", "A", "b">>)},
     rn \in {NaN, Str(<<"a", "b", " ">>), Str(<<"c", "b">>)}}

\* header rows: labels that differ; repeated labels that the suffixes make
\* differ; labels that the suffixes make equal (columns 1 and 3, columns 3
\* and 4, columns 5 and 6); empty and blank labels
HeaderRows ==
  {Row(Str(<<"N">>), Str(<<"B">>), Str(<<"A">>), Str(<<"M">>), Str(<<"C">>), Str(<<"D">>)),
   Row(Str(<<"N">>), Str(<<"B">>), Str(<<"A">>), Str(<<"N">>), Str(<<"B">>), Str(<<" ", "A">>)),
   Row(Str(<<"A", "_", "1">>), Str(<<"A">>), Str(<<"A">>),
       Str(<<"M">>), Str(<<"C">>), Str(<<"D">>)),
   Row(Str(<<"N">>), Str(<<"A">>), Str(<<"A">>),
       Str(<<"A", "_", "1">>), Str(<<"C">>), Str(<<"D">>)),
   Row(Str(<<"N">>), Str(<<"B">>), Str(<<"A">>),
       Str(<<"X">>), Str(<<"X">>), Str(<<"X", "_", "1">>)),
   Row(NaN, <<>>, Str(<<" ">>), Str(<<"n", "a", "n">>),
       Str(<<"C", "o", "l", "u", "m", "n", "_", "B">>), Str(<<"B">>))}

Grids(rows) == UNION {[1..n -> rows] : n \in 1..MaxRows}

\* the state at the click on "Run Validation", before the right_map loop
RunStart ==
  /\ pc = "right_loop"
  /\ r = start_row
  /\ right_map = <<>>
  /\ results = <<>>
  /\ mismatches = <<>>
  /\ args = <<>>
  /\ ret = <<>>

\* a sheet read with "No header" and the default column mapping
NoHeaderSheet ==
  /\ header_row = NoHeader
  /\ display_cols = make_display_cols(df, NoHeader)
  /\ mapping = DefaultMapping

\* start_row <= end_row, both within the grid (number_input bounds, line 280)
Init ==
  /\ df \in Grids(MatchRows)
  /\ NoHeaderSheet
  /\ start_row \in 0..(Len(df) - 1)
  /\ end_row \in start_row..(Len(df) - 1)
  /\ tolerance = ToleranceDefault
  /\ sim_thresh \in {SimThreshMin, 50, SimThreshDefault}
  /\ RunStart

\* the widgets' default row range: the whole grid; the tolerances 0.01 and 0.5
InitCompare ==
  /\ df \in Grids(CompareRows)
  /\ NoHeaderSheet
  /\ start_row = 0
  /\ end_row = Len(df) - 1
  /\ tolerance \in {ToleranceDefault, FloatOfDecimal(FALSE, <<5>>, 1)}
  /\ sim_thresh = SimThreshDefault
  /\ RunStart

\* the whole grid, with the names and the numbers varying together; the
\* tolerances 0.01 and 0.5, the threshold 0.50
InitNotes ==
  /\ df \in Grids(NotesRows)
  /\ NoHeaderSheet
  /\ start_row = 0
  /\ end_row = Len(df) - 1
  /\ tolerance \in {ToleranceDefault, FloatOfDecimal(FALSE, <<5>>, 1)}
  /\ sim_thresh = 50
  /\ RunStart

\* the largest row number the row widgets allow: max(0, total_rows - 1)
max_row(total_rows) == IF total_rows - 1 > 0 THEN total_rows - 1 ELSE 0

\* a sheet read with its first row as the header row: no data row or more
InitHeader ==
  /\ \E hdr \in HeaderRows, data \in {<<>>} \cup Grids(HeaderDataRows) :
       /\ header_row = 0
       /\ df = make_df(<<hdr>> \o data, 0)
       /\ display_cols = make_display_cols(<<hdr>> \o data, 0)
  /\ mapping = DefaultMapping
  /\ start_row \in 0..max_row(Len(df))
  /\ end_row \in start_row..max_row(Len(df))
  /\ tolerance = ToleranceDefault
  /\ sim_thresh = SimThreshDefault
  /\ RunStart

(***************************************************************************)
(* Run Validation: the two loops.                                          *)
(***************************************************************************)
\* one iteration of the right_map loop (lines 311-326); an exception outside
\* the try block ends the script
RightRow ==
  /\ pc = "right_loop"
  /\ r <= right_loop_last
  /\ IF right_row_raises(df, r)
     THEN /\ pc' = "raised"
          /\ UNCHANGED <<r, right_map>>
     ELSE /\ pc' = pc
          /\ r' = r + 1
          /\ right_map' =
               IF name_skipped(get_cell(df, r, mapping.right_name_idx)) THEN right_map
               ELSE dict_set(right_map,
                             Lower(Strip(get_cell(df, r, mapping.right_name_idx))),
                             right_record(df, r))
  /\ UNCHANGED <<df, header_row, display_cols, mapping, start_row, end_row,
                 tolerance, sim_thresh, results, mismatches, args, ret>>

\* the right_map loop ends; results = [], mismatches = [] (lines 329-331)
RightLoopEnd ==
  /\ pc = "right_loop"
  /\ r > right_loop_last
  /\ pc' = "left_loop"
  /\ r' = start_row
  /\ results' = <<>>
  /\ mismatches' = <<>>
  /\ UNCHANGED <<df, header_row, display_cols, mapping, start_row, end_row,
                 tolerance, sim_thresh, right_map, args, ret>>

\* one iteration of the left loop (lines 331-405); an exception outside the
\* try block ends the script
LeftRow ==
  /\ pc = "left_loop"
  /\ r <= end_row
  /\ IF left_row_raises(df, r)
     THEN /\ pc' = "raised"
          /\ UNCHANGED <<r, results, mismatches>>
     ELSE /\ pc' = pc
          /\ r' = r + 1
          /\ IF name_skipped(get_cell(df, r, mapping.left_name_idx))
             THEN UNCHANGED <<results, mismatches>>
             ELSE record_entry(make_entry(df, r, right_map, tolerance, sim_thresh))
  /\ UNCHANGED <<df, header_row, display_cols, mapping, start_row, end_row,
                 tolerance, sim_thresh, right_map, args, ret>>

\* the left loop ends: the summary is shown
LeftLoopEnd ==
  /\ pc = "left_loop"
  /\ r > end_row
  /\ pc' = "done"
  /\ UNCHANGED <<df, header_row, display_cols, mapping, start_row, end_row,
                 tolerance, sim_thresh, r, right_map, results, mismatches,
                 args, ret>>

Next == RightRow \/ RightLoopEnd \/ LeftRow \/ LeftLoopEnd

Spec == Init /\ [][Next]_vars

SpecCompare == InitCompare /\ [][Next]_vars

SpecNotes == InitNotes /\ [][Next]_vars

SpecHeader == InitHeader /\ [][Next]_vars

(***************************************************************************)
(* The pure functions, applied to inputs drawn from bounded sets.          *)
(***************************************************************************)
NoRun ==
  /\ df = <<>>
  /\ header_row = NoHeader
  /\ display_cols = <<>>
  /\ mapping = DefaultMapping
  /\ start_row = 0
  /\ end_row = 0
  /\ tolerance = ToleranceDefault
  /\ sim_thresh = SimThreshDefault
  /\ r = 0
  /\ right_map = <<>>
  /\ results = <<>>
  /\ mismatches = <<>>

\* kept characters (ARABIC-INDIC DIGIT THREE among the digits), a stripped
\* character and whitespace (NO-BREAK SPACE included)
CellAlphabet ==
  {Ord(c) : c \in {"1", "0", "-", ".", ",", "(", ")", "$", " "}} \cup {1635, 160}

\* every short cell string and the documented examples
InitParse ==
  /\ NoRun
  /\ pc = "call"
  /\ args \in {<<x>> : x \in StringsUpTo(CellAlphabet, MaxCellLen)
                               \cup {Str(<<"1", ",", "2", "3", "4", ".", "5", "0">>),
                                     Str(<<"a", "b", "c">>)}}
  /\ ret = <<>>

\* parse_number(X) and parse_number("(" + X + ")")
ParseCall ==
  /\ pc = "call"
  /\ ret' = [plain   |-> parse_number(args[1]),
             wrapped |-> parse_number(<<Ord("(")>> \o args[1] \o <<Ord(")")>>)]
  /\ pc' = "returned"
  /\ UNCHANGED <<df, header_row, display_cols, mapping, start_row, end_row,
                 tolerance, sim_thresh, r, right_map, results, mismatches, args>>

SpecParse == InitParse /\ [][ParseCall]_vars

\* letters, one of them in both cases, and LATIN CAPITAL LETTER E WITH ACUTE
NameAlphabet == {Ord(c) : c \in {"a", "b", "c", "A"}} \cup {201}

InitSimilar ==
  /\ NoRun
  /\ pc = "call"
  /\ args \in StringsUpTo(NameAlphabet, MaxNameLen) \X StringsUpTo(NameAlphabet, MaxNameLen)
  /\ ret = <<>>

\* similar(a, b) and similar(b, a)
SimilarCall ==
  /\ pc = "call"
  /\ ret' = [ab |-> similar(args[1], args[2]), ba |-> similar(args[2], args[1])]
  /\ pc' = "returned"
  /\ UNCHANGED <<df, header_row, display_cols, mapping, start_row, end_row,
                 tolerance, sim_thresh, r, right_map, results, mismatches, args>>

SpecSimilar == InitSimilar /\ [][SimilarCall]_vars

(***************************************************************************)
(* Properties.                                                             *)
(***************************************************************************)
\* the cell of data row k (0-based) in the column at position idx (0-based)
Cell(k, idx) == df[k + 1][idx + 1]

\* a name cell that is empty or holds only whitespace
Blank(cell) == cell = NaN \/ \A i \in 1..Len(cell) : cell[i] \in Whitespace

\* the normalized key of a name cell: trimmed, lowercased
NormKey(cell) == Lower(Strip(cell))

Keys(rmap) == {rmap[i].key : i \in 1..Len(rmap)}

HasNote(entry, note) == \E i \in 1..Len(entry.notes) : entry.notes[i] = note

\* the normalized key of the left row an entry was made from
LeftKeyOf(entry) == NormKey(Cell(entry.left_row, mapping.left_name_idx))

\* the entry's right_* fields are those of the record rec
MatchedTo(entry, rec) ==
  /\ entry.match_found
  /\ entry.right_row = rec.row
  /\ entry.right_name = rec.name
  /\ entry.right_budget = rec.budget
  /\ entry.right_actual = rec.actual

\* a score of h hundredths written with two decimals
ScoreText(h) ==
  IF h = 100 THEN "1.00"
  ELSE "0." \o DigitStr[(h \div 10) + 1] \o DigitStr[(h % 10) + 1]

\* the fuzzy-match notes of the scores 0.00 .. 1.00
FuzzyNoteTexts == {"Fuzzy match (score " \o ScoreText(h) \o ")" : h \in 0..100}

HasFuzzyNote(entry) == \E i \in 1..Len(entry.notes) : entry.notes[i] \in FuzzyNoteTexts

IsFuzzy(entry) == entry.match_found /\ HasFuzzyNote(entry)

\* two ratios are equal (den > 0)
RatioEq(x, y) == x.num * y.den = y.num * x.den

\* the score of right-index item j against an entry's left key
ScoreOf(entry, j) == similar(LeftKeyOf(entry), right_map[j].key)

\* C1: a processed left row whose normalized key is a key of the right index
\* is matched to the record stored under that key, with no fuzzy-match note
\* (and no no-match note), whatever the scores of the other index entries.
C1_ExactKeyPrecedence ==
  \A i \in 1..Len(results) :
    LeftKeyOf(results[i]) \in Keys(right_map) =>
      /\ \E j \in 1..Len(right_map) :
           /\ right_map[j].key = LeftKeyOf(results[i])
           /\ MatchedTo(results[i], right_map[j].val)
      /\ ~HasFuzzyNote(results[i])
      /\ ~HasNote(results[i], NoMatchNote)

\* an exact match made while another index entry clears the threshold
C1_Witness ==
  /\ pc = "done"
  /\ \E i \in 1..Len(results) :
       /\ LeftKeyOf(results[i]) \in Keys(right_map)
       /\ results[i].match_found
       /\ \E j \in 1..Len(right_map) :
            /\ right_map[j].key # LeftKeyOf(results[i])
            /\ RatioGeHundredths(ScoreOf(results[i], j), sim_thresh)

\* the maximum score over the right index exists and is >= the threshold
BestScoreAtLeastThreshold(entry) ==
  \E j \in 1..Len(right_map) :
    /\ \A k \in 1..Len(right_map) : ~RatioGt(ScoreOf(entry, k), ScoreOf(entry, j))
    /\ ScoreOf(entry, j).num * 100 >= sim_thresh * ScoreOf(entry, j).den

\* C2: a processed left row whose normalized key is no key of the right index
\* is fuzzy-matched iff the maximum score over the index is >= the threshold
\* (equality accepted); otherwise it is unmatched.
C2_FuzzyIffBestAtLeastThreshold ==
  \A i \in 1..Len(results) :
    LeftKeyOf(results[i]) \notin Keys(right_map) =>
      /\ IsFuzzy(results[i]) <=> BestScoreAtLeastThreshold(results[i])
      /\ ~IsFuzzy(results[i]) =>
           /\ ~results[i].match_found
           /\ results[i].right_row = -1

\* a fuzzy match whose best score equals the threshold
C2_Witness ==
  /\ pc = "done"
  /\ \E i \in 1..Len(results) :
       /\ LeftKeyOf(results[i]) \notin Keys(right_map)
       /\ IsFuzzy(results[i])
       /\ \A j \in 1..Len(right_map) :
            ScoreOf(results[i], j).num * 100 <= sim_thresh * ScoreOf(results[i], j).den

\* |l - rv| in float arithmetic
AbsDiff(l, rv) == FloatAbs(FloatSub(l, rv))

\* the agreement ok of one field, given the left cell and the column of the
\* cell of the matched right row
AgreementIs(entry, ok, leftCell, rightIdx) ==
  IF ~entry.match_found THEN ok = "None"
  ELSE /\ ok = "None" <=> \/ parse_number(leftCell).isNone
                          \/ parse_number(Cell(entry.right_row, rightIdx)).isNone
       /\ ok # "None" =>
            /\ ok \in {"True", "False"}
            /\ ok = "True" <=>
                 FloatLe(AbsDiff(parse_number(leftCell),
                                 parse_number(Cell(entry.right_row, rightIdx))),
                         tolerance)

\* C3: for every result and each numeric field, the agreement is None iff
\* the row is unmatched or the left or the matched right value is
\* unparseable; otherwise it is True iff |left - right| <= tolerance
\* (equality included) and False otherwise, left, right, their difference
\* and the tolerance being floats.
C3_Agreement ==
  \A i \in 1..Len(results) :
    /\ AgreementIs(results[i], results[i].budget_ok,
                   Cell(results[i].left_row, mapping.left_budget_idx),
                   mapping.right_budget_idx)
    /\ AgreementIs(results[i], results[i].actual_ok,
                   Cell(results[i].left_row, mapping.left_actual_idx),
                   mapping.right_actual_idx)

\* a budget difference exactly at a non-zero tolerance, counted as agreeing,
\* next to an unmatched row
C3_Witness ==
  /\ pc = "done"
  /\ tolerance # Zero(FALSE)
  /\ \E i \in 1..Len(results) :
       /\ results[i].match_found
       /\ ~results[i].left_budget.isNone
       /\ ~results[i].right_budget.isNone
       /\ AbsDiff(results[i].left_budget, results[i].right_budget) = tolerance
       /\ results[i].budget_ok = "True"
  /\ \E i \in 1..Len(results) : ~results[i].match_found

NeedsAttention(entry) ==
  (~entry.match_found) \/ entry.budget_ok = "False" \/ entry.actual_ok = "False"

\* C4: mismatches is the sub-sequence of results, in order, of the entries
\* that are unmatched or have a False budget or a False actual agreement.
C4_MismatchesAreAttentionResults ==
  pc \in {"left_loop", "done"} => mismatches = SelectSeq(results, NeedsAttention)

\* a finished run with a matched result left out of mismatches although one
\* of its fields is indeterminate, and another result kept in mismatches
C4_Witness ==
  /\ pc = "done"
  /\ mismatches # <<>>
  /\ \E i \in 1..Len(results) :
       /\ results[i].match_found
       /\ results[i].budget_ok = "None"
       /\ results[i].actual_ok = "True"
       /\ \A j \in 1..Len(mismatches) : mismatches[j] # results[i]

\* the left rows already visited whose name cell is not blank
EligibleVisited ==
  {k \in start_row..end_row :
     /\ k < Len(df)
     /\ pc \in {"left_loop", "done"}
     /\ pc = "done" \/ k < r
     /\ ~Blank(Cell(k, mapping.left_name_idx))}

\* C5: the run does not raise, and the results are exactly one per visited
\* left row of the range with a non-blank name, in increasing row order,
\* whatever the budget and actual cells hold; a finished run has visited the
\* whole range.
C5_OneResultPerEligibleRow ==
  /\ pc # "raised"
  /\ Len(results) = Cardinality(EligibleVisited)
  /\ \A i \in 1..Len(results) : results[i].left_row \in EligibleVisited
  /\ \A i, j \in 1..Len(results) :
       i < j => results[i].left_row < results[j].left_row
  /\ pc = "done" => r = end_row + 1

\* the right rows already visited by the right_map loop whose name cell is
\* not blank
IndexedRows ==
  {k \in start_row..end_row :
     /\ k < Len(df)
     /\ pc # "right_loop" \/ k < r
     /\ ~Blank(Cell(k, mapping.right_name_idx))}

\* C6: the key set of the right index is the set of normalized names of the
\* indexed rows with a non-blank name, each key occurs once and maps to the
\* record of the last such row carrying it, and so no blank-name right row
\* is in the index or is the match of a left row.
C6_RightIndexLastWriteWins ==
  /\ Keys(right_map) = {NormKey(Cell(k, mapping.right_name_idx)) : k \in IndexedRows}
  /\ \A i, j \in 1..Len(right_map) : right_map[i].key = right_map[j].key => i = j
  /\ \A i \in 1..Len(right_map) :
       \E last \in IndexedRows :
         /\ NormKey(Cell(last, mapping.right_name_idx)) = right_map[i].key
         /\ \A k \in IndexedRows :
              NormKey(Cell(k, mapping.right_name_idx)) = right_map[i].key => k <= last
         /\ right_map[i].val.row = last
         /\ right_map[i].val.name = Strip(Cell(last, mapping.right_name_idx))
         /\ right_map[i].val.budget = parse_number(Cell(last, mapping.right_budget_idx))
         /\ right_map[i].val.actual = parse_number(Cell(last, mapping.right_actual_idx))
  /\ \A i \in 1..Len(results) :
       results[i].match_found => results[i].right_row \in IndexedRows

\* the rows of the whole grid whose right name cell is not blank
AllRightRows ==
  {k \in 0..(Len(df) - 1) : ~Blank(Cell(k, mapping.right_name_idx))}

\* C7 as claimed: the right index is built from every row of the grid, the
\* row range restricting the left side only.
C7_RightIndexFromEveryRow ==
  pc \in {"left_loop", "done"} =>
    Keys(right_map) = {NormKey(Cell(k, mapping.right_name_idx)) : k \in AllRightRows}

\* C7 as the code has it: the row range restricts both sides.  Every record
\* of the right index comes from a row of [start_row, end_row], a key
\* carried only by rows outside the range is not in the index, and no left
\* row is matched to a row outside the range.
C7_RightIndexWithinRange ==
  /\ \A i \in 1..Len(right_map) : right_map[i].val.row \in start_row..end_row
  /\ pc \in {"left_loop", "done"} =>
       \A k \in AllRightRows :
         (\A k2 \in AllRightRows :
            NormKey(Cell(k2, mapping.right_name_idx))
              = NormKey(Cell(k, mapping.right_name_idx))
              => k2 \notin start_row..end_row)
         => NormKey(Cell(k, mapping.right_name_idx)) \notin Keys(right_map)
  /\ \A i \in 1..Len(results) :
       results[i].match_found => results[i].right_row \in start_row..end_row

\* a processed left row whose exact counterpart lies on a right row outside
\* the range, and which is therefore not matched to it
C7_Witness ==
  /\ pc = "done"
  /\ \E i \in 1..Len(results) :
       /\ LeftKeyOf(results[i]) \notin Keys(right_map)
       /\ \E k \in AllRightRows :
            /\ k \notin start_row..end_row
            /\ NormKey(Cell(k, mapping.right_name_idx)) = LeftKeyOf(results[i])

\* y = -x on floats: the sign is flipped (0.0 and -0.0 included)
IsNegationOf(y, x) ==
  /\ ~y.isNone
  /\ y.neg = ~x.neg
  /\ y.nan = x.nan
  /\ y.inf = x.inf
  /\ y.mant = x.mant
  /\ y.exp = x.exp

\* C8 as claimed: parse_number("(" + X + ")") is the negation of
\* parse_number(X), and None exactly when parse_number(X) is None.
C8_ParenthesesNegate ==
  pc = "returned" =>
    /\ ret.wrapped.isNone <=> ret.plain.isNone
    /\ ~ret.plain.isNone => IsNegationOf(ret.wrapped, ret.plain)

\* C8 as the code has it: the negation law holds for every X whose kept
\* characters are not themselves wrapped in a parenthesis pair; for an X
\* that is, parse_number("(" + X + ")") is None.  parse("1,234.50") =
\* 1234.5 = 2469 / 2, parse("(1,234.50)") = -1234.5,
\* parse("") = parse("abc") = None.
C8_ParenthesesNegateUnwrapped ==
  pc = "returned" =>
    /\ IF IsParenthesized(SelectSeq(args[1], LAMBDA c : c \in KeptChars))
       THEN ret.wrapped = None
       ELSE /\ ret.wrapped.isNone <=> ret.plain.isNone
            /\ ~ret.plain.isNone => IsNegationOf(ret.wrapped, ret.plain)
    /\ args[1] = Str(<<"1", ",", "2", "3", "4", ".", "5", "0">>) =>
         /\ ret.plain = [isNone |-> FALSE, nan |-> FALSE, inf |-> FALSE,
                         neg |-> FALSE, mant |-> <<2469>>, exp |-> -1]
         /\ ret.wrapped = [isNone |-> FALSE, nan |-> FALSE, inf |-> FALSE,
                           neg |-> TRUE, mant |-> <<2469>>, exp |-> -1]
    /\ args[1] \in {<<>>, Str(<<"a", "b", "c">>)} => ret.plain = None

\* a negative fraction read from a parenthesized string with a separator
C8_Witness ==
  /\ pc = "returned"
  /\ \E i \in 1..Len(args[1]) : args[1][i] = Ord(",")
  /\ ~ret.plain.isNone
  /\ ~ret.plain.neg
  /\ ret.plain.mant # <<>>
  /\ ret.plain.exp < 0
  /\ ~ret.wrapped.isNone
  /\ ret.wrapped.neg

\* C9: similar(a, b) = similar(b, a) for all strings a and b.
C9_SimilarSymmetric ==
  pc = "returned" => RatioEq(ret.ab, ret.ba)

\* C10: a fuzzy-matched left row is matched to a record whose score is the
\* maximum over the right index, and to the first such record in the
\* iteration order of the index.
C10_FuzzyPicksFirstBest ==
  \A i \in 1..Len(results) :
    IsFuzzy(results[i]) =>
      \E j \in 1..Len(right_map) :
        /\ MatchedTo(results[i], right_map[j].val)
        /\ \A k \in 1..Len(right_map) :
             ~RatioGt(ScoreOf(results[i], k), ScoreOf(results[i], j))
        /\ \A k \in 1..(j - 1) :
             RatioGt(ScoreOf(results[i], j), ScoreOf(results[i], k))

\* a fuzzy match chosen among two index entries tied at the best score
C10_Witness ==
  /\ pc = "done"
  /\ \E i \in 1..Len(results) :
       /\ IsFuzzy(results[i])
       /\ \E j, k \in 1..Len(right_map) :
            /\ j < k
            /\ MatchedTo(results[i], right_map[j].val)
            /\ RatioEq(ScoreOf(results[i], j), ScoreOf(results[i], k))

\* the number of notes of an entry that are in the set texts
NoteCount(entry, texts) ==
  Cardinality({i \in 1..Len(entry.notes) : entry.notes[i] \in texts})

\* the match kinds, told from the right index: Exact when the left key is a
\* key of the index, Fuzzy when the row is matched otherwise
IsExactMatch(entry) == entry.match_found /\ LeftKeyOf(entry) \in Keys(right_map)
IsFuzzyMatch(entry) == entry.match_found /\ LeftKeyOf(entry) \notin Keys(right_map)

FixedNoteTexts ==
  {NoMatchNote,
   "Budget unparsable on one side", "Budget mismatch",
   "Actual unparsable on one side", "Actual mismatch"}

NotesRecordNonAgree(entry) ==
  /\ \A i \in 1..Len(entry.notes) : entry.notes[i] \in FuzzyNoteTexts \cup FixedNoteTexts
  /\ NoteCount(entry, FuzzyNoteTexts) <= 1
  /\ \A n \in FixedNoteTexts : NoteCount(entry, {n}) <= 1
  /\ HasFuzzyNote(entry) <=> IsFuzzyMatch(entry)
  /\ HasNote(entry, NoMatchNote) <=> ~entry.match_found
  /\ HasNote(entry, "Budget mismatch")
       <=> (entry.match_found /\ entry.budget_ok = "False")
  /\ HasNote(entry, "Budget unparsable on one side")
       <=> (entry.match_found /\ entry.budget_ok = "None")
  /\ HasNote(entry, "Actual mismatch")
       <=> (entry.match_found /\ entry.actual_ok = "False")
  /\ HasNote(entry, "Actual unparsable on one side")
       <=> (entry.match_found /\ entry.actual_ok = "None")
  /\ entry.notes = <<>>
       <=> (IsExactMatch(entry) /\ entry.budget_ok = "True" /\ entry.actual_ok = "True")

\* C11: the notes of every result record exactly the non-agreeing
\* conditions: a fuzzy-match note iff the match is fuzzy, a no-match note iff
\* the row is unmatched, a budget note iff the row is matched and its budget
\* is False or None, an actual note likewise, each once and nothing else;
\* so notes is empty iff the match is exact and both fields agree.
C11_NotesRecordNonAgree ==
  \A i \in 1..Len(results) : NotesRecordNonAgree(results[i])

\* a finished run with an exact match without notes, and a fuzzy match of
\* score 1/2 that carries the fuzzy note with the score 0.50 and the note of
\* an unparsable budget
C11_Witness ==
  /\ pc = "done"
  /\ \E i \in 1..Len(results) :
       IsExactMatch(results[i]) /\ results[i].notes = <<>>
  /\ \E i \in 1..Len(results) :
       /\ IsFuzzyMatch(results[i])
       /\ results[i].budget_ok = "None"
       /\ results[i].notes = <<"Fuzzy match (score 0.50)",
                                "Budget unparsable on one side">>

====
